---- MODULE Spec2Model ----
(***************************************************************************)
(* The mutation and query resolvers of the storefront API                  *)
(* (src/src/resolvers/Mutation.js, src/unnamed/part_000) as a state        *)
(* machine over the database behind ctx.db, the payment collaborator and   *)
(* the requests in flight.                                                 *)
(*                                                                         *)
(* A resolver runs synchronously up to its first await and between two     *)
(* awaits; other requests run while it waits.  addToCart and createOrder   *)
(* are therefore split at their awaits (one action per database or         *)
(* payment call); the other resolvers make at most one read followed by    *)
(* one write and are modelled as one action each.                          *)
(***************************************************************************)
EXTENDS Integers, Sequences, FiniteSets, TLC

VARIABLES users, items, cartItems, orders, charges, nextId, now, req, adds, issuedAt

vars == <<users, items, cartItems, orders, charges, nextId, now, req, adds, issuedAt>>

(***************************************************************************)
(* Bounds of the model.                                                    *)
(***************************************************************************)
NumUsers == 2
MaxItems == 3
MaxCartRows == 2
MaxQuantity == 2
MaxCharges == 2
MaxTokens == 2
MaxHours == 2
NumRequests == 2

(***************************************************************************)
(* Values.                                                                 *)
(***************************************************************************)
\* ctx.request.userId is undefined for a request without a session token
NoUser == 0
UserIds == 1..NumUsers
Callers == {NoUser} \cup UserIds
ItemIds == 1..MaxItems
Requests == 1..NumRequests
Prices == {500, 1200}
Titles == {"shoes", "bag"}
Passwords == {"pw1", "pw2"}
PermSets == {{"USER"}, {"USER", "ADMIN"}, {"USER", "ITEMDELETE"}, {"USER", "PERMISSIONUPDATE"}}

\* bcrypt.hash(password, 10): a one-way image of the password
Hash(p) == <<"bcrypt", p>>

\* a request slot with no call in it
NoCall ==
  [op |-> "none", pc |-> "idle", userId |-> NoUser, id |-> 0, error |-> "",
   dbCalls |-> 0, existing |-> <<>>, cart |-> <<>>, amount |-> 0,
   charge |-> <<>>, order |-> <<>>]

\* no call is running in slot r: its previous call has returned or thrown
Idle(r) == req[r].pc \in {"idle", "done", "error"}

\* the slot a new call takes: the lowest one with no call running
Free(r) == Idle(r) /\ \A q \in 1..(r - 1) : ~Idle(q)

\* the call of slot r begins: ctx.request.userId = u, args.id = id
Call(op, u, id) == [NoCall EXCEPT !.op = op, !.userId = u, !.id = id, !.pc = "done"]

\* the resolver returns after n persistence calls: its locals are gone
Return(call, n) == [Call(call.op, call.userId, 0) EXCEPT !.dbCalls = n]

\* throw new Error(...) after n persistence calls
Throw(call, err, n) ==
  [Call(call.op, call.userId, 0) EXCEPT !.pc = "error", !.error = err, !.dbCalls = n]

\* the rows of a set in id order, as the database returns them
RECURSIVE InIdOrder(_)
InIdOrder(S) ==
  IF S = {} THEN <<>>
  ELSE LET m == CHOOSE x \in S : \A y \in S : x.id <= y.id
       IN <<m>> \o InIdOrder(S \ {m})

(***************************************************************************)
(* addToCart                                                               *)
(***************************************************************************)
\* ctx.db.query.cartItems({ where: { user: { id: userId }, item: { id: args.id } } })
QueryCartItems(u, i) == InIdOrder({c \in cartItems : c.user = u /\ c.item = i})

\* quantity of a CartItem created without one (the datamodel's default)
DefaultQuantity == 1

\* the number of addToCart calls about to create a row
Creating == Cardinality({q \in Requests : req[q].pc = "queried" /\ req[q].existing = <<>>})

\* the guard and the cartItems query
AddToCartQuery(r, u, i) ==
  /\ Free(r)
  /\ \A c \in cartItems : c.user = u /\ c.item = i => c.quantity < MaxQuantity
  /\ (u # NoUser /\ QueryCartItems(u, i) = <<>>) => nextId.cart + Creating <= MaxCartRows
  /\ IF u = NoUser
     THEN req' = [req EXCEPT ![r] = Throw(Call("addToCart", u, i), "Unauthenticated", 0)]
     ELSE req' = [req EXCEPT ![r] =
                    [Call("addToCart", u, i) EXCEPT !.pc = "queried", !.dbCalls = 1,
                                                    !.existing = QueryCartItems(u, i)]]
  /\ UNCHANGED <<users, items, cartItems, orders, charges, nextId, now, adds, issuedAt>>

\* the increment forgotten
NotIncremented(existingCartItem) == existingCartItem.quantity

\* the increment applied to the row as it is now, not as it was read
IncrementedNow(existingCartItem) ==
  (CHOOSE row \in cartItems : row.id = existingCartItem.id).quantity + 1

\* data: { quantity: existingCartItem.quantity + 1 }
Incremented(existingCartItem) == existingCartItem.quantity + 1

\* if (existingCartItem) updateCartItem else createCartItem
AddToCartWrite(r) ==
  /\ req[r].op = "addToCart" /\ req[r].pc = "queried"
  /\ LET c == req[r]
         u == c.userId
         i == c.id
     IN IF c.existing # <<>>
        THEN LET existingCartItem == Head(c.existing)
             IN IF \E row \in cartItems : row.id = existingCartItem.id
                THEN /\ cartItems' =
                          {IF row.id = existingCartItem.id
                           THEN [row EXCEPT !.quantity = Incremented(existingCartItem)]
                           ELSE row : row \in cartItems}
                     /\ req' = [req EXCEPT ![r] = Return(c, 2)]
                     /\ adds' = [adds EXCEPT ![u, i] = @ + 1]
                     /\ UNCHANGED nextId
                ELSE \* the row was deleted meanwhile: updateCartItem throws
                     /\ req' = [req EXCEPT ![r] = Throw(c, "NotFound", 2)]
                     /\ UNCHANGED <<cartItems, adds, nextId>>
        ELSE IF i \in DOMAIN items
        THEN /\ cartItems' = cartItems \cup
                  {[id |-> nextId.cart, user |-> u, item |-> i, quantity |-> DefaultQuantity]}
             /\ nextId' = [nextId EXCEPT !.cart = @ + 1]
             /\ req' = [req EXCEPT ![r] = Return(c, 2)]
             /\ adds' = [adds EXCEPT ![u, i] = @ + 1]
        ELSE \* connect: { id: args.id } finds no item: createCartItem throws
             /\ req' = [req EXCEPT ![r] = Throw(c, "NotFound", 2)]
             /\ UNCHANGED <<cartItems, adds, nextId>>
  /\ UNCHANGED <<users, items, orders, charges, now, issuedAt>>

(***************************************************************************)
(* removeFromCart                                                          *)
(***************************************************************************)
RemoveFromCart(r, u, id) ==
  /\ Free(r)
  /\ LET call == Call("removeFromCart", u, id)
         found == {c \in cartItems : c.id = id}
     IN IF found = {}
        THEN /\ req' = [req EXCEPT ![r] = Throw(call, "NotFound", 1)]
             /\ UNCHANGED <<cartItems, adds>>
        ELSE LET cartItem == CHOOSE c \in found : TRUE
             IN IF cartItem.user # u
                THEN /\ req' = [req EXCEPT ![r] = Throw(call, "Forbidden", 1)]
                     /\ UNCHANGED <<cartItems, adds>>
                ELSE /\ cartItems' = cartItems \ found
                     /\ req' = [req EXCEPT ![r] = Return(call, 2)]
                     /\ adds' = [adds EXCEPT ![cartItem.user, cartItem.item] =
                                   IF \E c \in cartItems' : c.user = cartItem.user /\ c.item = cartItem.item
                                   THEN @ ELSE 0]
  /\ UNCHANGED <<users, items, orders, charges, nextId, now, issuedAt>>

(***************************************************************************)
(* createOrder                                                             *)
(***************************************************************************)
\* user.cart with the nested item, as the query's selection set returns it
\* (of the item's fields the model keeps id, title and price)
UserCart(u) ==
  LET rows == InIdOrder({c \in cartItems : c.user = u})
  IN [k \in 1..Len(rows) |->
        [id |-> rows[k].id, quantity |-> rows[k].quantity,
         item |-> [id |-> rows[k].item, title |-> items[rows[k].item].title,
                   price |-> items[rows[k].item].price]]]

\* user.cart.reduce((tally, cartItem) => tally + cartItem.item.price * cartItem.quantity, 0)
RECURSIVE Reduce(_, _)
Reduce(cart, tally) ==
  IF cart = <<>> THEN tally
  ELSE Reduce(Tail(cart), tally + Head(cart).item.price * Head(cart).quantity)

\* the quantity left out of the tally
RECURSIVE ReducePrices(_, _)
ReducePrices(cart, tally) ==
  IF cart = <<>> THEN tally
  ELSE ReducePrices(Tail(cart), tally + Head(cart).item.price)

AmountOfPrices(cart) == ReducePrices(cart, 0)

Amount(cart) == Reduce(cart, 0)

\* { ...cartItem.item, quantity: cartItem.quantity, user: { connect: { id: userId } } }
\* with delete orderItem.id
OrderItem(cartItem, userId) ==
  [title |-> cartItem.item.title, price |-> cartItem.item.price,
   quantity |-> cartItem.quantity, user |-> userId]

OrderItems(cart, userId) == [k \in 1..Len(cart) |-> OrderItem(cart[k], userId)]

\* data: { total: charge.amount, charge: charge.id, items: { create: orderItems }, user }
NewOrder(id, charge, orderItems, userId) ==
  [id |-> id, total |-> charge.amount, charge |-> charge.id,
   items |-> orderItems, user |-> userId]

\* const cartItemIds = user.cart.map(cartItem => cartItem.id)
CartItemIds(cart) == {cart[k].id : k \in 1..Len(cart)}

\* the where clause left out: every CartItem is deleted
DeleteAllCartItems(ids) == {}

\* deleteManyCartItems({ where: { id_in: cartItemIds } })
DeleteManyCartItems(ids) == {c \in cartItems : c.id \notin ids}

\* the number of createOrder calls that have not charged yet
Charging == Cardinality({q \in Requests : req[q].pc = "charging"})

\* the guard, the user query, the total, and the charge request sent
CreateOrderQuery(r, u) ==
  /\ Free(r)
  /\ nextId.charge + Charging <= MaxCharges
  /\ LET call == Call("createOrder", u, 0)
     IN IF u = NoUser
        THEN req' = [req EXCEPT ![r] = Throw(call, "Unauthenticated", 0)]
        ELSE IF \E c \in cartItems : c.user = u /\ c.item \notin DOMAIN items
        THEN \* cartItem.item is null: the reducer throws a TypeError
             req' = [req EXCEPT ![r] = Throw(call, "TypeError", 1)]
        ELSE req' = [req EXCEPT ![r] =
                       [call EXCEPT !.pc = "charging", !.dbCalls = 1,
                                    !.cart = UserCart(u), !.amount = Amount(UserCart(u))]]
  /\ UNCHANGED <<users, items, cartItems, orders, charges, nextId, now, adds, issuedAt>>

\* stripe.charges.create resolves with { id, amount }
ChargeSucceeds(r) ==
  LET charge == [id |-> nextId.charge, amount |-> req[r].amount]
  IN /\ charges' = charges \cup {charge}
     /\ nextId' = [nextId EXCEPT !.charge = @ + 1]
     /\ req' = [req EXCEPT ![r].pc = "charged", ![r].charge = <<charge>>]

\* the rejection swallowed: the resolver goes on without a charge
ChargeFailureIgnored(r) ==
  /\ req' = [req EXCEPT ![r].pc = "charged",
                        ![r].charge = <<[id |-> 0, amount |-> req[r].amount]>>]
  /\ UNCHANGED <<charges, nextId>>

\* stripe.charges.create rejects (declined, network): the resolver throws
ChargeFails(r) ==
  /\ req' = [req EXCEPT ![r] = Throw(req[r], "PaymentFailed", req[r].dbCalls)]
  /\ UNCHANGED <<charges, nextId>>

CreateOrderCharge(r) ==
  /\ req[r].op = "createOrder" /\ req[r].pc = "charging"
  /\ \/ ChargeSucceeds(r)
     \/ ChargeFails(r)
  /\ UNCHANGED <<users, items, cartItems, orders, now, adds, issuedAt>>

\* await stripe.charges.create(...) has resolved
Charged(r) == req[r].pc = "charged"

\* the cart cleared without awaiting the order
ChargedOrOrdered(r) == req[r].pc \in {"charged", "ordered"}

\* await ctx.db.mutation.createOrder(...) has resolved
Ordered(r) == req[r].pc = "ordered"

\* ctx.db.mutation.createOrder
CreateOrderPersist(r) ==
  /\ req[r].op = "createOrder" /\ Charged(r)
  /\ LET c == req[r]
         order == NewOrder(nextId.order, Head(c.charge), OrderItems(c.cart, c.userId), c.userId)
     IN /\ orders' = orders \cup {order}
        /\ req' = [req EXCEPT ![r].pc = "ordered", ![r].order = <<order>>, ![r].dbCalls = 2]
  /\ nextId' = [nextId EXCEPT !.order = @ + 1]
  /\ UNCHANGED <<users, items, cartItems, charges, now, adds, issuedAt>>

\* ctx.db.mutation.deleteManyCartItems, then return order
CreateOrderClearCart(r) ==
  /\ req[r].op = "createOrder" /\ Ordered(r)
  /\ cartItems' = DeleteManyCartItems(CartItemIds(req[r].cart))
  /\ req' = [req EXCEPT ![r] = Return(req[r], 3)]
  /\ adds' = [p \in DOMAIN adds |->
               IF \E c \in cartItems' : c.user = p[1] /\ c.item = p[2] THEN adds[p] ELSE 0]
  /\ UNCHANGED <<users, items, orders, charges, nextId, now, issuedAt>>

\* the process stops, or the awaited database call rejects, after the charge:
\* nothing catches it and nothing compensates
Stop(r) ==
  /\ req[r].op = "createOrder" /\ req[r].pc \in {"charged", "ordered"}
  /\ req' = [req EXCEPT ![r].pc = "error", ![r].error = "Stopped"]
  /\ UNCHANGED <<users, items, cartItems, orders, charges, nextId, now, adds, issuedAt>>

(***************************************************************************)
(* Items                                                                   *)
(***************************************************************************)
CreateItem(r, u, title, price) ==
  /\ Free(r)
  /\ nextId.item <= MaxItems
  /\ LET call == Call("createItem", u, 0)
     IN IF u = NoUser
        THEN /\ req' = [req EXCEPT ![r] = Throw(call, "Unauthenticated", 0)]
             /\ UNCHANGED <<items, nextId>>
        ELSE /\ items' = [k \in DOMAIN items \cup {nextId.item} |->
                            IF k = nextId.item
                            THEN [user |-> u, title |-> title, price |-> price]
                            ELSE items[k]]
             /\ nextId' = [nextId EXCEPT !.item = @ + 1]
             /\ req' = [req EXCEPT ![r] = Return(call, 1)]
  /\ UNCHANGED <<users, cartItems, orders, charges, now, adds, issuedAt>>

\* updates = { ...args } without id (the model updates the price)
UpdateItem(r, u, id, price) ==
  /\ Free(r)
  /\ LET call == Call("updateItem", u, id)
     IN IF id \in DOMAIN items
        THEN /\ items' = [items EXCEPT ![id].price = price]
             /\ req' = [req EXCEPT ![r] = Return(call, 1)]
        ELSE /\ req' = [req EXCEPT ![r] = Throw(call, "NotFound", 1)]
             /\ UNCHANGED items
  /\ UNCHANGED <<users, cartItems, orders, charges, nextId, now, adds, issuedAt>>

\* ctx.request.user: the session middleware attaches the user record of an
\* authenticated request; a request without a session has none
RequestUser(u) == IF u = NoUser THEN <<>> ELSE <<users[u]>>

\* permissions.some(permission => needed.includes(permission))
SomePermission(permissions, needed) == \E permission \in permissions : permission \in needed

\* if (!ownsItem && hasPermissions) throw
DeleteItemDenied(ownsItem, hasPermissions) == ~ownsItem /\ hasPermissions

DeleteItem(r, u, id) ==
  /\ Free(r)
  /\ LET call == Call("deleteItem", u, id)
     IN IF id \notin DOMAIN items \/ RequestUser(u) = <<>>
        THEN \* item.user of null, or permissions of undefined: a TypeError
             /\ req' = [req EXCEPT ![r] = Throw(call, "TypeError", 1)]
             /\ UNCHANGED items
        ELSE LET ownsItem == items[id].user = u
                 hasPermissions ==
                   SomePermission(Head(RequestUser(u)).permissions, {"ADMIN", "ITEMDELETE"})
             IN IF DeleteItemDenied(ownsItem, hasPermissions)
                THEN /\ req' = [req EXCEPT ![r] = Throw(call, "Forbidden", 1)]
                     /\ UNCHANGED items
                ELSE /\ items' = [k \in DOMAIN items \ {id} |-> items[k]]
                     /\ req' = [req EXCEPT ![r] = Return(call, 2)]
  /\ UNCHANGED <<users, cartItems, orders, charges, nextId, now, adds, issuedAt>>

(***************************************************************************)
(* Permissions                                                             *)
(***************************************************************************)
\* hasPermission(user, permissionsNeeded) of ../utils: throws unless the
\* user's permissions intersect the needed ones
HasPermission(user, permissionsNeeded) == user.permissions \cap permissionsNeeded # {}

UpdatePermissions(r, u, userId, permissions) ==
  /\ Free(r)
  /\ LET call == Call("updatePermissions", u, userId)
     IN IF u = NoUser
        THEN /\ req' = [req EXCEPT ![r] = Throw(call, "Unauthenticated", 0)]
             /\ UNCHANGED users
        ELSE IF ~HasPermission(users[u], {"ADMIN", "PERMISSIONUPDATE"})
        THEN /\ req' = [req EXCEPT ![r] = Throw(call, "Forbidden", 1)]
             /\ UNCHANGED users
        ELSE /\ users' = [users EXCEPT ![userId].permissions = permissions]
             /\ req' = [req EXCEPT ![r] = Return(call, 2)]
  /\ UNCHANGED <<items, cartItems, orders, charges, nextId, now, adds, issuedAt>>

(***************************************************************************)
(* Query.order                                                             *)
(***************************************************************************)
\* if (!ownsOrder || !hasPermissionToSeeOrder) throw
OrderDenied(ownsOrder, hasPermissionToSeeOrder) == ~ownsOrder \/ ~hasPermissionToSeeOrder

Order(r, u, id) ==
  /\ Free(r)
  /\ LET call == Call("order", u, id)
         found == {o \in orders : o.id = id}
     IN IF u = NoUser
        THEN req' = [req EXCEPT ![r] = Throw(call, "Unauthenticated", 0)]
        ELSE IF found = {}
        THEN \* order.user of null: a TypeError
             req' = [req EXCEPT ![r] = Throw(call, "TypeError", 1)]
        ELSE LET order == CHOOSE o \in found : TRUE
                 ownsOrder == order.user = u
                 hasPermissionToSeeOrder == "ADMIN" \in Head(RequestUser(u)).permissions
             IN IF OrderDenied(ownsOrder, hasPermissionToSeeOrder)
                THEN req' = [req EXCEPT ![r] = Throw(call, "Forbidden", 1)]
                ELSE req' = [req EXCEPT ![r] = Return(call, 1)]
  /\ UNCHANGED <<users, items, cartItems, orders, charges, nextId, now, adds, issuedAt>>

(***************************************************************************)
(* Password reset                                                          *)
(***************************************************************************)
\* 3600000 ms
HOUR == 3600000

\* const resetTokenExpiry = Date.now() + 3600000
ResetTokenExpiry(t) == t + HOUR

\* args.email names user e (0: an address no user has); the token is fresh
RequestReset(r, e) ==
  /\ Free(r)
  /\ nextId.token <= MaxTokens
  /\ LET call == Call("requestReset", NoUser, e)
     IN IF e \notin UserIds
        THEN /\ req' = [req EXCEPT ![r] = Throw(call, "NotFound", 1)]
             /\ UNCHANGED <<users, nextId, issuedAt>>
        ELSE /\ users' = [users EXCEPT ![e].resetToken = nextId.token,
                                       ![e].resetTokenExpiry = ResetTokenExpiry(now)]
             /\ nextId' = [nextId EXCEPT !.token = @ + 1]
             /\ issuedAt' = [issuedAt EXCEPT ![nextId.token] = now]
             /\ req' = [req EXCEPT ![r] = Return(call, 2)]
  /\ UNCHANGED <<items, cartItems, orders, charges, now, adds>>

\* where: { resetToken: args.resetToken, resetTokenExpiry_gte: Date.now() - 3600000 }
TokenMatches(user, resetToken, t) ==
  /\ user.resetToken = resetToken
  /\ user.resetTokenExpiry >= t - HOUR

ResetPassword(r, resetToken, password, confirmPassword) ==
  /\ Free(r)
  /\ LET call == Call("resetPassword", NoUser, resetToken)
         found == {u \in UserIds : TokenMatches(users[u], resetToken, now)}
     IN IF password # confirmPassword
        THEN /\ req' = [req EXCEPT ![r] = Throw(call, "PasswordMismatch", 0)]
             /\ UNCHANGED users
        ELSE IF found = {}
        THEN /\ req' = [req EXCEPT ![r] = Throw(call, "InvalidOrExpiredToken", 1)]
             /\ UNCHANGED users
        ELSE LET user == CHOOSE u \in found : \A v \in found : u <= v
             IN /\ users' = [users EXCEPT ![user].password = Hash(password),
                                          ![user].resetToken = 0,
                                          ![user].resetTokenExpiry = 0]
                /\ req' = [req EXCEPT ![r] = Return(call, 2)]
  /\ UNCHANGED <<items, cartItems, orders, charges, nextId, now, adds, issuedAt>>

\* the instants Date.now() takes in the model: on the hour and 1 ms after it
Instants == {h * HOUR + d : h \in 0..MaxHours, d \in {0, 1}}

Tick ==
  /\ \E t \in Instants : t > now /\ now' = t
  /\ UNCHANGED <<users, items, cartItems, orders, charges, nextId, req, adds, issuedAt>>

(***************************************************************************)
(* The storefront: users add to their carts and check out, with requests   *)
(* in flight at the same time.                                             *)
(***************************************************************************)
\* one item per user, priced as in the example of the specification
Shop ==
  [i \in UserIds |-> [user |-> i,
                      title |-> IF i % 2 = 1 THEN "shoes" ELSE "bag",
                      price |-> IF i % 2 = 1 THEN 500 ELSE 1200]]

Accounts(permissions) ==
  [u \in UserIds |->
     [permissions |-> permissions[u], password |-> Hash("pw1"),
      resetToken |-> 0, resetTokenExpiry |-> 0]]

\* signup stores permissions: { set: ['USER'] }
Signup == [u \in UserIds |-> {"USER"}]

Init ==
  /\ users = Accounts(Signup)
  /\ items = Shop
  /\ cartItems = {}
  /\ orders = {}
  /\ charges = {}
  /\ nextId = [cart |-> 1, order |-> 1, charge |-> 1, item |-> NumUsers + 1, token |-> 1]
  /\ now = 0
  /\ req = [r \in Requests |-> NoCall]
  /\ adds = [p \in UserIds \X ItemIds |-> 0]
  /\ issuedAt = [t \in 1..MaxTokens |-> 0]

AddStart(r, callers) == \E u \in callers, i \in DOMAIN Shop : AddToCartQuery(r, u, i)

RemoveStart(r, callers) ==
  \E u \in callers, id \in 1..MaxCartRows : RemoveFromCart(r, u, id)

ShopStart(r, callers) == AddStart(r, callers) \/ RemoveStart(r, callers)

ShopStep(r) == AddToCartWrite(r)

CheckoutStart(r, callers) == \E u \in callers : CreateOrderQuery(r, u)

CheckoutStep(r) ==
  \/ CreateOrderCharge(r)
  \/ CreateOrderPersist(r)
  \/ CreateOrderClearCart(r)
  \/ Stop(r)

Next ==
  \E r \in Requests :
    \/ AddStart(r, UserIds)
    \/ CheckoutStart(r, UserIds)
    \/ ShopStep(r)
    \/ CheckoutStep(r)

Spec == Init /\ [][Next]_vars

(***************************************************************************)
(* The carts alone (addToCart, removeFromCart), with requests in flight at  *)
(* the same time.                                                          *)
(***************************************************************************)
RaceNext ==
  \E r \in Requests :
    \/ ShopStart(r, UserIds)
    \/ ShopStep(r)

SpecRace == Init /\ [][RaceNext]_vars

(***************************************************************************)
(* The carts alone, one request at a time: a call starts when the previous *)
(* one has returned.                                                       *)
(***************************************************************************)
SeqNext == ShopStart(1, UserIds) \/ ShopStep(1)

SpecSeq == Init /\ [][SeqNext]_vars

(***************************************************************************)
(* The gated mutations, called with and without a session, one request at  *)
(* a time.                                                                 *)
(***************************************************************************)
ItemStart(r, callers) ==
  \/ \E u \in callers, title \in Titles, price \in Prices : CreateItem(r, u, title, price)
  \/ \E u \in callers, id \in ItemIds, price \in Prices : UpdateItem(r, u, id, price)
  \/ \E u \in callers, id \in ItemIds : DeleteItem(r, u, id)

PermissionStart(r, callers) ==
  \E u \in callers, userId \in UserIds, permissions \in PermSets :
    UpdatePermissions(r, u, userId, permissions)

\* the storefront after the first user has put the first item in the cart
\* and checked out
FirstCharge == [id |-> 1, amount |-> Shop[1].price]

FirstOrder ==
  NewOrder(1, FirstCharge,
           OrderItems(<<[id |-> 1, quantity |-> 1,
                         item |-> [id |-> 1, title |-> Shop[1].title,
                                   price |-> Shop[1].price]]>>, 1),
           1)

AfterFirstOrder(permissions) ==
  /\ users = Accounts(permissions)
  /\ items = Shop
  /\ cartItems = {}
  /\ orders = {FirstOrder}
  /\ charges = {FirstCharge}
  /\ nextId = [cart |-> 2, order |-> 2, charge |-> 2, item |-> NumUsers + 1, token |-> 1]
  /\ now = 0
  /\ req = [r \in Requests |-> NoCall]
  /\ adds = [p \in UserIds \X ItemIds |-> 0]
  /\ issuedAt = [t \in 1..MaxTokens |-> 0]

GuardInit == AfterFirstOrder(Signup)

GuardNext ==
  \/ ItemStart(1, Callers)
  \/ PermissionStart(1, Callers)
  \/ ShopStart(1, Callers)
  \/ ShopStep(1)
  \/ CheckoutStart(1, Callers)
  \/ CheckoutStep(1)

SpecGuard == GuardInit /\ [][GuardNext]_vars

(***************************************************************************)
(* The permission gates, for users of every permission set.                *)
(***************************************************************************)
AuthInit == \E permissions \in [UserIds -> PermSets] : AfterFirstOrder(permissions)

AuthNext ==
  \/ ItemStart(1, Callers)
  \/ PermissionStart(1, Callers)
  \/ \E u \in Callers, id \in 1..MaxCharges : Order(1, u, id)

SpecAuth == AuthInit /\ [][AuthNext]_vars

(***************************************************************************)
(* Password reset over time.                                               *)
(***************************************************************************)
ResetNext ==
  \/ \E e \in Callers : RequestReset(1, e)
  \/ \E resetToken \in 1..MaxTokens, password \in Passwords, confirmPassword \in Passwords :
       ResetPassword(1, resetToken, password, confirmPassword)
  \/ Tick

SpecReset == Init /\ [][ResetNext]_vars

(***************************************************************************)
(* Properties                                                              *)
(***************************************************************************)
GatedMutations ==
  {"createItem", "updateItem", "deleteItem", "updatePermissions",
   "addToCart", "removeFromCart", "createOrder"}

Returned(r) == req[r].pc \in {"done", "error"}

\* C1: a gated mutation called without a session has failed with
\* Unauthenticated, and it made no persistence call before failing.
C1_UnauthenticatedFailsFirst ==
  \A r \in Requests :
    (req[r].op \in GatedMutations /\ req[r].userId = NoUser /\ Returned(r))
      => (req[r].error = "Unauthenticated" /\ req[r].dbCalls = 0)

\* C2: a user who neither owns the item nor holds ADMIN or ITEMDELETE is
\* refused by deleteItem with Forbidden and the item stays; a user who holds
\* neither ADMIN nor PERMISSIONUPDATE is refused by updatePermissions with
\* Forbidden and no permission set changes.
C2_ForbiddenWithoutRoleOrOwnership ==
  [][\A r \in Requests, u \in UserIds :
       /\ \A id \in DOMAIN items :
            (/\ DeleteItem(r, u, id)
             /\ items[id].user # u
             /\ users[u].permissions \cap {"ADMIN", "ITEMDELETE"} = {})
              => (req'[r].error = "Forbidden" /\ items' = items)
       /\ \A userId \in UserIds, permissions \in PermSets :
            (/\ UpdatePermissions(r, u, userId, permissions)
             /\ users[u].permissions \cap {"ADMIN", "PERMISSIONUPDATE"} = {})
              => (req'[r].error = "Forbidden" /\ users' = users)]_vars

\* C3: deleteItem accepts the owner of the item whatever the roles, and a
\* holder of ADMIN or ITEMDELETE whoever owns the item; Query.order accepts
\* the owner of the order whatever the roles, and a holder of ADMIN whoever
\* owns the order.
C3_OwnershipOrRole ==
  [][\A r \in Requests, u \in UserIds :
       /\ \A id \in DOMAIN items :
            (/\ DeleteItem(r, u, id)
             /\ \/ items[id].user = u
                \/ users[u].permissions \cap {"ADMIN", "ITEMDELETE"} # {})
              => (req'[r].pc = "done" /\ id \notin DOMAIN items')
       /\ \A o \in orders :
            (/\ Order(r, u, o.id)
             /\ \/ o.user = u
                \/ "ADMIN" \in users[u].permissions)
              => req'[r].pc = "done"]_vars

\* C7: resetPassword with matching passwords rejects a token issued more
\* than one hour earlier with InvalidOrExpiredToken, and accepts the token a
\* user still holds when it was issued one hour earlier or less.
C7_OneHourWindow ==
  [][\A r \in Requests, resetToken \in 1..MaxTokens, password \in Passwords :
       (ResetPassword(r, resetToken, password, password) /\ resetToken < nextId.token)
         => /\ now > issuedAt[resetToken] + HOUR
                 => req'[r].error = "InvalidOrExpiredToken"
            /\ (/\ now <= issuedAt[resetToken] + HOUR
                /\ \E u \in UserIds : users[u].resetToken = resetToken)
                 => req'[r].pc = "done"]_vars

\* a createOrder call between its first and its last await
CheckingOut(r) ==
  req[r].op = "createOrder" /\ req[r].pc \in {"charging", "charged", "ordered"}

\* C4: the step of createOrder in which the charge is not captured ends the
\* call with PaymentFailed and leaves the orders and the cart items as they
\* were; the failed call can take no further step, so it never creates an
\* order or deletes a cart item afterwards; and no order exists without a
\* captured charge.
C4_FailedChargeAborts ==
  /\ [][\A r \in Requests :
          (/\ req[r].op = "createOrder" /\ req[r].pc = "charging"
           /\ req'[r] # req[r]
           /\ charges' = charges)
            => /\ req'[r].pc = "error" /\ req'[r].error = "PaymentFailed"
               /\ orders' = orders
               /\ cartItems' = cartItems]_vars
  /\ [](\A r \in Requests : req[r].error = "PaymentFailed" => ~ENABLED CheckoutStep(r))
  /\ [](\A o \in orders : \E charge \in charges : charge.id = o.charge)

\* a call failed on the charge: nothing was charged or ordered and the
\* caller's cart still holds its items
C4_Witness ==
  \E r \in Requests :
    /\ req[r].op = "createOrder" /\ req[r].error = "PaymentFailed"
    /\ orders = {} /\ charges = {}
    /\ \E c \in cartItems : c.user = req[r].userId

\* the snapshot an order keeps of a cart row read by the user query
Snapshot(row, u) ==
  [title |-> items[row.item].title, price |-> items[row.item].price,
   quantity |-> row.quantity, user |-> u]

\* C5: the cart a createOrder call aggregates is the caller's cart at that
\* time (one entry per CartItem, in id order) and stays what was read; the
\* call adds exactly one order, owned by the caller, with one snapshot per
\* aggregated CartItem (title, price and quantity kept, no item id); its last
\* step deletes the CartItems whose ids were read and no other; and orders
\* are added and kept by no other step.
C5_OneOrderExactCartCleared ==
  [][/\ \A r \in Requests :
          /\ (Idle(r) /\ req'[r].op = "createOrder" /\ req'[r].pc = "charging")
               => LET u == req'[r].userId
                      mine == {c \in cartItems : c.user = u}
                      cart == req'[r].cart
                  IN /\ Len(cart) = Cardinality(mine)
                     /\ \A c \in mine : \E k \in 1..Len(cart) :
                          /\ cart[k].id = c.id /\ cart[k].quantity = c.quantity
                          /\ OrderItem(cart[k], u) = Snapshot(c, u)
                     /\ \A k \in 1..Len(cart) - 1 : cart[k].id < cart[k + 1].id
          /\ (CheckingOut(r) /\ req'[r].pc \in {"charged", "ordered"})
               => req'[r].cart = req[r].cart
          /\ (req[r].op = "createOrder" /\ req[r].pc = "charged" /\ req'[r].pc = "ordered")
               => \E o \in orders' \ orders :
                    /\ orders' = orders \cup {o}
                    /\ o.user = req[r].userId
                    /\ o.charge = Head(req[r].charge).id
                    /\ DOMAIN o.items = DOMAIN req[r].cart
                    /\ \A k \in DOMAIN o.items :
                         /\ o.items[k].title = req[r].cart[k].item.title
                         /\ o.items[k].price = req[r].cart[k].item.price
                         /\ o.items[k].quantity = req[r].cart[k].quantity
                         /\ o.items[k].user = req[r].userId
                         /\ DOMAIN o.items[k] = {"title", "price", "quantity", "user"}
                    /\ cartItems' = cartItems
          /\ (req[r].op = "createOrder" /\ req[r].pc = "ordered" /\ req'[r].pc = "done")
               => /\ cartItems' =
                       {c \in cartItems : \A k \in 1..Len(req[r].cart) : req[r].cart[k].id # c.id}
                  /\ orders' = orders
     /\ orders' # orders
          => /\ orders \subseteq orders'
             /\ \E r \in Requests :
                  req[r].op = "createOrder" /\ req[r].pc = "charged" /\ req'[r].pc = "ordered"]_vars

\* a checkout has completed: its order holds the snapshot of what was in the
\* cart, and an item the caller added after the aggregation is still there
C5_Witness ==
  \E r \in Requests :
    /\ req[r].op = "createOrder" /\ req[r].pc = "done"
    /\ \E o \in orders : o.user = req[r].userId /\ Len(o.items) = 1
    /\ Cardinality(orders) = 1
    /\ \E c \in cartItems : c.user = req[r].userId

\* the sum of price * quantity over entries 1..n of a sequence of priced rows
RECURSIVE SumTo(_, _, _)
SumTo(price, quantity, n) ==
  IF n = 0 THEN 0 ELSE SumTo(price, quantity, n - 1) + price[n] * quantity[n]

CartTotal(cart) ==
  SumTo([k \in 1..Len(cart) |-> cart[k].item.price],
        [k \in 1..Len(cart) |-> cart[k].quantity], Len(cart))

OrderTotal(o) ==
  SumTo([k \in 1..Len(o.items) |-> o.items[k].price],
        [k \in 1..Len(o.items) |-> o.items[k].quantity], Len(o.items))

\* C6: the amount a createOrder call submits is the sum of price * quantity
\* over the cart it aggregated (0 for an empty cart); the charge it obtains is
\* captured for that amount; and every order's total is the amount of its
\* charge and the sum of price * quantity over its snapshots.
C6_TotalIsChargeIsSum ==
  /\ \A r \in Requests :
       CheckingOut(r) =>
         /\ req[r].amount = CartTotal(req[r].cart)
         /\ req[r].pc \in {"charged", "ordered"} =>
              /\ Head(req[r].charge).amount = req[r].amount
              /\ Head(req[r].charge) \in charges
         /\ req[r].pc = "ordered" =>
              /\ Head(req[r].order) \in orders
              /\ Head(req[r].order).total = Head(req[r].charge).amount
              /\ Head(req[r].order).charge = Head(req[r].charge).id
  /\ \A o \in orders :
       /\ \E charge \in charges : charge.id = o.charge /\ charge.amount = o.total
       /\ o.total = OrderTotal(o)

\* the example of the specification: 2 at 500 and 1 at 1200 ordered for 2200
C6_Witness ==
  \E o \in orders :
    /\ o.total = 2200
    /\ Len(o.items) = 2
    /\ \E k \in 1..2 : o.items[k].price = 500 /\ o.items[k].quantity = 2
    /\ \E r \in Requests : req[r].op = "createOrder" /\ req[r].pc = "done"

\* the CartItems of a user for an item
Pair(u, i) == {c \in cartItems : c.user = u /\ c.item = i}

RECURSIVE Quantity(_)
Quantity(rows) ==
  IF rows = {} THEN 0
  ELSE LET c == CHOOSE x \in rows : TRUE IN c.quantity + Quantity(rows \ {c})

\* C8: with one call at a time, an addToCart call for an item in the caller's
\* cart adds 1 to that CartItem's quantity and creates no row, and a call for
\* an item not in the cart creates one row of quantity 1; so there is at most
\* one CartItem per user and item, and its quantity is the number of addToCart
\* calls for the pair since the row was last absent.
C8_OneRowPerPair ==
  /\ [](\A u \in UserIds, i \in ItemIds :
          /\ Cardinality(Pair(u, i)) <= 1
          /\ \A c \in Pair(u, i) : c.quantity = adds[u, i]
          /\ Pair(u, i) = {} => adds[u, i] = 0)
  /\ [][\A r \in Requests :
          (req[r].op = "addToCart" /\ req[r].pc = "queried" /\ req'[r].pc = "done")
            => LET rows == Pair(req[r].userId, req[r].id)
               IN IF rows # {}
                  THEN cartItems' = {IF c \in rows THEN [c EXCEPT !.quantity = @ + 1] ELSE c :
                                       c \in cartItems}
                  ELSE \E row \in cartItems' \ cartItems :
                         /\ cartItems' = cartItems \cup {row}
                         /\ row.user = req[r].userId /\ row.item = req[r].id
                         /\ row.quantity = 1]_vars

\* the second addToCart call for an item has returned: one row, quantity 2
C8_Witness ==
  /\ req[1].op = "addToCart" /\ req[1].pc = "done"
  /\ \E c \in cartItems :
       /\ c.quantity = 2 /\ adds[c.user, c.item] = 2
       /\ Pair(c.user, c.item) = {c}

\* C9: the write of addToCart acts on what the call read before, not on the
\* cart as it is: a call that read no row creates a row even when the pair
\* has a row by now, and a call that read a row sets that row's quantity to
\* the quantity it read plus 1 whatever the row holds by now.
C9_CheckThenWrite ==
  [][\A r \in Requests :
       (req[r].op = "addToCart" /\ req[r].pc = "queried" /\ req'[r].pc = "done")
         => IF req[r].existing = <<>>
            THEN \E row \in cartItems' \ cartItems :
                   /\ cartItems' = cartItems \cup {row}
                   /\ row.user = req[r].userId /\ row.item = req[r].id
                   /\ row.quantity = 1
            ELSE /\ {c.id : c \in cartItems'} = {c.id : c \in cartItems}
                 /\ \A c \in cartItems' :
                      IF c.id = Head(req[r].existing).id
                      THEN c.quantity = Head(req[r].existing).quantity + 1
                      ELSE c \in cartItems]_vars

\* two rows for one user and item, and fewer units in them than addToCart
\* calls completed for the pair: a duplicate row and a lost increment
C9_Witness ==
  \E u \in UserIds, i \in ItemIds :
    /\ Cardinality(Pair(u, i)) = 2
    /\ \E c \in Pair(u, i) : c.quantity = 2
    /\ Quantity(Pair(u, i)) < adds[u, i]

\* C10: a createOrder call charges, then creates the order, then deletes
\* the cart items, each step once: before its charge is captured it changes
\* neither orders nor cart items, it deletes cart items only once its order
\* exists, a step that ends it in an error undoes nothing, and no charge or
\* order is ever removed.
C10_ChargeThenOrderThenClear ==
  [][/\ \A r \in Requests :
          /\ (Idle(r) /\ req'[r] # req[r] /\ req'[r].op = "createOrder")
               => (charges' = charges /\ orders' = orders /\ cartItems' = cartItems)
          /\ (CheckingOut(r) /\ req'[r] # req[r])
               => /\ req[r].pc = "charging"
                       => /\ req'[r].pc \in {"charged", "error"}
                          /\ orders' = orders /\ cartItems' = cartItems
                  /\ req[r].pc = "charged"
                       => /\ req'[r].pc \in {"ordered", "error"}
                          /\ Head(req[r].charge) \in charges
                          /\ charges' = charges /\ cartItems' = cartItems
                  /\ req[r].pc = "ordered"
                       => /\ req'[r].pc \in {"done", "error"}
                          /\ Head(req[r].order) \in orders
                          /\ charges' = charges /\ orders' = orders
                  /\ req'[r].pc = "error"
                       => (charges' = charges /\ orders' = orders /\ cartItems' = cartItems)
     /\ charges \subseteq charges' /\ orders \subseteq orders'
     /\ charges' # charges
          => \E r \in Requests :
               /\ req[r].op = "createOrder" /\ req[r].pc = "charging"
               /\ req'[r].charge # <<>>
               /\ charges' = charges \cup {Head(req'[r].charge)}
     /\ orders' # orders
          => \E r \in Requests :
               /\ req[r].op = "createOrder" /\ req[r].pc = "charged"
               /\ req'[r].order # <<>>
               /\ orders' = orders \cup {Head(req'[r].order)}]_vars

\* one call stopped after its charge with no order for it, another stopped
\* after its order with the cart it aggregated still in place
C10_Witness ==
  \E r1 \in Requests, r2 \in Requests :
    /\ req[r1].error = "Stopped" /\ req[r1].order = <<>>
    /\ req[r1].charge # <<>>
    /\ Head(req[r1].charge) \in charges
    /\ \A o \in orders : o.charge # Head(req[r1].charge).id
    /\ req[r2].error = "Stopped" /\ req[r2].order # <<>>
    /\ Head(req[r2].order) \in orders
    /\ req[r2].cart # <<>>
    /\ \A k \in 1..Len(req[r2].cart) : \E c \in cartItems : c.id = req[r2].cart[k].id

====
